---- MODULE Spec2Model ----
(***************************************************************************)
(* DynonToHud: the time-bounded JSON cache (json_data_cache.py), the       *)
(* EFIS/EMS frame decoder (dynon_decoder.py), the serial reader            *)
(* (dynon_serial_reader.py) and the per-link loops (dynon_to_hud.py).      *)
(*                                                                         *)
(* Conventions.                                                            *)
(*  - Python's None is the empty tuple <<>>; a present optional value x    *)
(*    is the one-element tuple <<x>>.                                      *)
(*  - A dict is a TLA+ function from keys to values; {} is <<>>.           *)
(*  - dict objects live in `heap`, indexed by object identity, so that     *)
(*    aliasing between the cache's storage and a caller's reference is     *)
(*    expressible.                                                         *)
(*  - The clock `now` counts eighths of a second (the decoder's max-ages,  *)
(*    0.25 s and 0.5 s, are 2 and 4); it only moves forward.               *)
(*  - Python floats that are decimal fractions are kept as scaled          *)
(*    integers; the scale is stated where the value is produced.           *)
(***************************************************************************)
EXTENDS Integers, Sequences, FiniteSets, TLC

VARIABLES
    now,            \* datetime.datetime.utcnow(), in eighths of a second
    heap,           \* object identity -> dict contents
    cache,          \* a JsonDataCache under direct use (CacheSpec)
    held,           \* the caller's reference to the dict the last get() returned
    ems_data,       \* EfisAndEmsDecoder.__ems_data__
    efis_data,      \* EfisAndEmsDecoder.__efis_data__
    max_lateral_gs, min_lateral_gs,     \* session extremes, tenths of a G
    max_vertical_gs, min_vertical_gs,
    gs_samples,     \* history: the vertical-G samples decode_efis has decoded
    serial_reader,  \* DynonSerialReader.serial_reader: None or <<handle>>
    last_read,      \* DynonSerialReader.__last_read__: None or <<time>>
    open_handles,   \* the serial.Serial handles opened and not closed
    threads,        \* the read_and_decode_loop threads, by port (LinkSpec)
    hist,           \* history: what has happened on the reader or the links
    call            \* the last operation: its name, argument, result and pre-state

cacheVars == <<cache, held>>
decoderVars == <<ems_data, efis_data, max_lateral_gs, min_lateral_gs,
                 max_vertical_gs, min_vertical_gs, gs_samples>>
readerVars == <<serial_reader, last_read, open_handles>>
linkVars == <<readerVars, threads, hist>>
vars == <<now, heap, cacheVars, decoderVars, linkVars, call>>

\* ------------------------------------------------------------------ bounds

\* The clock runs over 0..MaxTime.
MaxTime == 5
\* max_age_seconds of the cache under direct use ranges over 1..MaxAge.
MaxAge == 2
\* dict objects that can be alive at once.
NumObjs == 3

\* ------------------------------------------------------------- Python data

None == <<>>
Some(x) == <<x>>
EmptyDict == <<>>

\* len(d) of a dict
DictLen(d) == Cardinality(DOMAIN d)

\* dict.update(new): every key of new takes new's value, the others stay.
DictUpdate(old, new) ==
    [k \in (DOMAIN old) \cup (DOMAIN new) |->
        IF k \in DOMAIN new THEN new[k] ELSE old[k]]

\* d with key k removed (del d[k])
DictDel(d, k) == [j \in (DOMAIN d) \ {k} |-> d[j]]

ObjIds == 1..NumObjs

\* A new dict object: an identity no live reference uses.
NewObj(live) == CHOOSE o \in ObjIds : o \notin live /\ \A p \in ObjIds : p \notin live => o <= p

\* Objects without a live reference are reclaimed.
Reclaim(h, live) == [o \in ObjIds |-> IF o \in live THEN h[o] ELSE EmptyDict]

\* --------------------------------------------------------- JsonDataCache

\* JsonDataCache.__init__: the package object o is the new {}. lock_object
\* is None while the threading.Lock is free, else <<the thread holding it>>.
JsonDataCache(max_age_seconds, o) ==
    [max_age_seconds |-> max_age_seconds,
     last_updated    |-> None,
     json_package    |-> o,
     lock_object     |-> None]

\* A variant whose acquire() never waits.
acquire_blocks_never(lock_object) == FALSE

\* __lock_object__.acquire() waits while another thread holds the lock.
acquire_blocks(lock_object) == lock_object # None

\* __get_data_age__ at clock reading t. __json_package__ is never None.
get_data_age(c, t) ==
    IF c.last_updated = None
    THEN c.max_age_seconds * 1000
    ELSE t - c.last_updated[1]

\* garbage_collect at clock reading t: rebinds __json_package__ to a new {}.
\* live: the objects that stay referenced once the old package is dropped.
garbage_collect_always(c, h, t, live) ==
    LET o == NewObj(live)
    IN  [c |-> [c EXCEPT !.json_package = o], h |-> [h EXCEPT ![o] = EmptyDict]]

garbage_collect(c, h, t, live) ==
    IF get_data_age(c, t) > c.max_age_seconds
    THEN LET o == NewObj(live)
         IN  [c |-> [c EXCEPT !.json_package = o], h |-> [h EXCEPT ![o] = EmptyDict]]
    ELSE [c |-> c, h |-> h]

\* update(new_package) at clock reading t; new_package is None or <<dict>>.
update_replace(c, h, t, new_package) ==
    IF new_package = None \/ DictLen(new_package[1]) < 1
    THEN [c |-> c, h |-> h]
    ELSE [c |-> [c EXCEPT !.last_updated = Some(t)],
          h |-> [h EXCEPT ![c.json_package] = new_package[1]]]

update_stamp_first(c, h, t, new_package) ==
    IF new_package = None
    THEN [c |-> c, h |-> h]
    ELSE [c |-> [c EXCEPT !.last_updated = Some(t)],
          h |-> [h EXCEPT ![c.json_package] = DictUpdate(@, new_package[1])]]

update(c, h, t, new_package) ==
    IF new_package = None \/ DictLen(new_package[1]) < 1
    THEN [c |-> c, h |-> h]
    ELSE [c |-> [c EXCEPT !.last_updated = Some(t)],
          h |-> [h EXCEPT ![c.json_package] = DictUpdate(@, new_package[1])]]

\* A variant that counts a package aged exactly max_age as available.
is_available_inclusive(c, t) == get_data_age(c, t) <= c.max_age_seconds

\* is_available() at clock reading t
is_available(c, t) == get_data_age(c, t) < c.max_age_seconds

\* get_item_count()
get_item_count(c, h) == DictLen(h[c.json_package])

\* Whether get() at clock reading t returns __json_package__.copy() (else {}).
get_is_fresh(c, t) ==
    /\ c.last_updated # None
    /\ (t - c.last_updated[1]) < c.max_age_seconds

\* get() at clock reading t: the returned reference ref and the heap. The
\* result is always a new object o: a copy of the package, or a new {}.
get_alias(c, h, t, o) ==
    IF get_is_fresh(c, t)
    THEN [ref |-> c.json_package, h |-> h]
    ELSE [ref |-> o, h |-> [h EXCEPT ![o] = EmptyDict]]

\* A variant that empties the stored package when it finds it stale.
get_clears_stale(c, h, t, o) ==
    IF get_is_fresh(c, t)
    THEN [ref |-> o, h |-> [h EXCEPT ![o] = h[c.json_package]]]
    ELSE [ref |-> o, h |-> [h EXCEPT ![o] = EmptyDict, ![c.json_package] = EmptyDict]]

get(c, h, t, o) ==
    IF get_is_fresh(c, t)
    THEN [ref |-> o, h |-> [h EXCEPT ![o] = h[c.json_package]]]
    ELSE [ref |-> o, h |-> [h EXCEPT ![o] = EmptyDict]]

\* ------------------------------------------- the cache under direct use

CacheKeys == {"AHRSPitch", "EmsRpm"}
CacheVals == {"v1", "v2"}

\* Every dict over CacheKeys, {} included.
Partials ==
    UNION {[ks -> CacheVals] : ks \in SUBSET CacheKeys}

\* What update() may be handed: None or a dict.
UpdateArgs == {None} \cup {Some(p) : p \in Partials}

\* The dict objects the cache c and the caller's reference hd keep alive.
CacheLive(c, hd) == {c.json_package} \cup {hd[i] : i \in DOMAIN hd}

\* The dict objects an optional reference keeps alive.
RefLive(hd) == {hd[i] : i \in DOMAIN hd}

\* The state an operation starts from, as the claims need it.
CachePre == [last_updated |-> cache.last_updated, package |-> heap[cache.json_package]]

\* The decoder is not part of this specification.
DecoderUnused ==
    /\ ems_data = None /\ efis_data = None
    /\ max_lateral_gs = 10 /\ min_lateral_gs = 10
    /\ max_vertical_gs = 10 /\ min_vertical_gs = 10
    /\ gs_samples = {}

\* The serial reader is not part of this specification.
ReaderUnused == serial_reader = None /\ last_read = None /\ open_handles = {}
LinkUnused == ReaderUnused /\ threads = None /\ hist = None

CacheInit ==
    /\ now = 0
    /\ \E m \in 1..MaxAge : cache = JsonDataCache(m, 1)
    /\ heap = [o \in ObjIds |-> EmptyDict]
    /\ held = None
    /\ DecoderUnused
    /\ LinkUnused
    /\ call = [op |-> "init"]

\* The clock advances.
Tick ==
    /\ now < MaxTime
    /\ now' = now + 1
    /\ call' = [op |-> "tick"]
    /\ UNCHANGED <<heap, cacheVars, decoderVars, linkVars>>

CacheUpdate ==
    \E a \in UpdateArgs :
        LET r == update(cache, heap, now, a)
        IN  /\ cache' = r.c
            /\ heap' = r.h
            /\ call' = [op |-> "update", arg |-> a, pre |-> CachePre]
            /\ UNCHANGED <<now, held, decoderVars, linkVars>>

CacheGarbageCollect ==
    LET r == garbage_collect(cache, heap, now, RefLive(held))
    IN  /\ cache' = r.c
        /\ heap' = Reclaim(r.h, CacheLive(r.c, held))
        /\ call' = [op |-> "garbage_collect", pre |-> CachePre]
        /\ UNCHANGED <<now, held, decoderVars, linkVars>>

CacheIsAvailable ==
    /\ call' = [op |-> "is_available", ret |-> is_available(cache, now), pre |-> CachePre]
    /\ UNCHANGED <<now, heap, cache, held, decoderVars, linkVars>>

CacheGetItemCount ==
    /\ call' = [op |-> "get_item_count", ret |-> get_item_count(cache, heap), pre |-> CachePre]
    /\ UNCHANGED <<now, heap, cache, held, decoderVars, linkVars>>

\* get(); the caller keeps the returned dict and drops the one it held.
CacheGet ==
    LET r == get(cache, heap, now, NewObj({cache.json_package}))
    IN  /\ held' = Some(r.ref)
        /\ heap' = Reclaim(r.h, CacheLive(cache, Some(r.ref)))
        /\ call' = [op |-> "get", ret |-> r.h[r.ref], pre |-> CachePre]
        /\ UNCHANGED <<now, cache, decoderVars, linkVars>>

\* The caller adds or overwrites a key of the dict get() returned, or removes one.
CallerMutate ==
    /\ held # None
    /\ \/ \E k \in CacheKeys, v \in CacheVals :
            heap' = [heap EXCEPT ![held[1]] = DictUpdate(@, [j \in {k} |-> v])]
       \/ \E k \in DOMAIN heap[held[1]] :
            heap' = [heap EXCEPT ![held[1]] = DictDel(@, k)]
    /\ call' = [op |-> "caller_mutate", pre |-> CachePre]
    /\ UNCHANGED <<now, cache, held, decoderVars, linkVars>>

CacheNext ==
    \/ Tick
    \/ CacheUpdate
    \/ CacheGarbageCollect
    \/ CacheIsAvailable
    \/ CacheGetItemCount
    \/ CacheGet
    \/ CallerMutate

CacheSpec == CacheInit /\ [][CacheNext]_vars

\* ------------------------------------------------- claims on the cache

\* Staleness as get() and is_available() test it, at the current clock.
CacheStale == cache.last_updated = None \/ now - cache.last_updated[1] >= cache.max_age_seconds

\* C1: for a cache with positive max_age, after any sequence of operations
\* and clock advances, get() returns an empty mapping exactly when the cache
\* was never updated or now - last_updated >= max_age, and a non-empty
\* mapping in every other case.
C1_GetEmptyIffStale ==
    call.op = "get" => ((call.ret = EmptyDict) <=> CacheStale)

\* A get() that returned stored content one tick before it would expire.
C1_Witness ==
    /\ call.op = "get"
    /\ call.ret # EmptyDict
    /\ cache.last_updated # None
    /\ now - cache.last_updated[1] = cache.max_age_seconds - 1
    /\ now > cache.last_updated[1]

\* Staleness at the call of the last operation (cache operations do not move
\* the clock).
CacheStaleAtCall ==
    \/ call.pre.last_updated = None
    \/ now - call.pre.last_updated[1] >= cache.max_age_seconds

\* C5: garbage_collect() called on a cache that is stale in the sense of
\* get()/is_available() (never updated, or now - last_updated >= max_age,
\* the boundary age = max_age included) leaves the stored mapping empty and
\* last_updated unchanged.
C5_GcClearsStale ==
    (call.op = "garbage_collect" /\ CacheStaleAtCall) =>
        /\ get_item_count(cache, heap) = 0
        /\ cache.last_updated = call.pre.last_updated

\* C6: update(partial) with a non-empty mapping stores the old mapping
\* overridden by partial, stamps last_updated with the current time, and a
\* get() made at once returns the merged mapping.
C6_UpdateMerges ==
    (call.op = "update" /\ call.arg # None /\ DictLen(call.arg[1]) >= 1) =>
        LET partial == call.arg[1]
            stored  == heap[cache.json_package]
            old     == call.pre.package
            got     == get(cache, heap, now, NewObj(CacheLive(cache, held)))
        IN  /\ DOMAIN stored = (DOMAIN old) \cup (DOMAIN partial)
            /\ \A k \in DOMAIN partial : stored[k] = partial[k]
            /\ \A k \in (DOMAIN old) \ (DOMAIN partial) : stored[k] = old[k]
            /\ cache.last_updated = Some(now)
            /\ got.h[got.ref] = stored

\* An update that overrode one stored key and kept another, after the clock
\* had moved on from the previous update.
C6_Witness ==
    /\ call.op = "update"
    /\ call.arg # None
    /\ DictLen(call.arg[1]) = 1
    /\ DOMAIN call.pre.package = CacheKeys
    /\ \E k \in DOMAIN call.arg[1] : call.pre.package[k] # call.arg[1][k]
    /\ call.pre.last_updated # None
    /\ call.pre.last_updated[1] < now

\* C7: update({}) and update(None) change neither the stored mapping nor
\* last_updated: a stale cache stays stale, a fresh one keeps its expiry.
C7_EmptyUpdateNoOp ==
    (call.op = "update" /\ (call.arg = None \/ DictLen(call.arg[1]) = 0)) =>
        /\ heap[cache.json_package] = call.pre.package
        /\ cache.last_updated = call.pre.last_updated

\* update({}) on a cache that holds content stamped at an earlier time.
C7_Witness ==
    /\ call.op = "update"
    /\ call.arg = Some(EmptyDict)
    /\ call.pre.package # EmptyDict
    /\ call.pre.last_updated # None
    /\ call.pre.last_updated[1] < now

\* C8: the mapping get() returns is independent of the cache's storage:
\* adding, removing or overwriting keys in it changes neither the stored
\* mapping nor last_updated, hence no later get() or get_item_count().
C8_ReturnedCopyIndependent ==
    /\ held # None => held[1] # cache.json_package
    /\ call.op = "caller_mutate" =>
        /\ heap[cache.json_package] = call.pre.package
        /\ cache.last_updated = call.pre.last_updated
        /\ get_item_count(cache, heap) = DictLen(call.pre.package)

\* The caller changed the dict it got while the cache is fresh and non-empty.
C8_Witness ==
    /\ call.op = "caller_mutate"
    /\ ~CacheStale
    /\ call.pre.package # EmptyDict
    /\ heap[held[1]] # heap[cache.json_package]

\* C23: for a cache with positive max_age, is_available() is true exactly when
\* get() called at the same instant returns the stored content; a cache never
\* updated is unavailable and its get() is empty.
C23_AvailableIffGetReturnsContent ==
    call.op = "is_available" =>
        LET o == NewObj({cache.json_package})
            g == get(cache, heap, now, o)
            returned == g.h[g.ref]
        IN  /\ cache.max_age_seconds > 0
            /\ call.ret => /\ returned = heap[cache.json_package]
                           /\ returned # EmptyDict
            /\ ~call.ret => returned = EmptyDict
            /\ cache.last_updated = None => ~call.ret

\* is_available() answered False for a package aged exactly max_age, whose
\* stored mapping is not empty.
C23_Witness ==
    /\ call.op = "is_available"
    /\ ~call.ret
    /\ cache.last_updated # None
    /\ now - cache.last_updated[1] = cache.max_age_seconds
    /\ heap[cache.json_package] # EmptyDict

\* C28: get(), is_available() and get_item_count() change neither the stored
\* mapping nor last_updated, and get_item_count() returns the number of keys
\* stored, also for a stale package whose get() is empty.
C28_ReadsChangeNothing ==
    [][/\ call'.op \in {"get", "is_available", "get_item_count"} =>
            /\ cache' = cache
            /\ heap'[cache.json_package] = heap[cache.json_package]
       /\ call'.op = "get_item_count" =>
            call'.ret = DictLen(heap[cache.json_package])
       /\ (call'.op = "get" /\ CacheStale) =>
            /\ heap'[held'[1]] = EmptyDict
            /\ get_item_count(cache', heap') = DictLen(heap[cache.json_package])]_vars

\* get_item_count() returned 2 for a stale package while the caller holds
\* an empty dict.
C28_Witness ==
    /\ call.op = "get_item_count"
    /\ call.ret = 2
    /\ CacheStale
    /\ held # None
    /\ heap[held[1]] = EmptyDict

\* ----------------- the cache in a decode-then-collect loop (CycleSpec)

\* hist records, for each key of the stored mapping, the clock reading of the
\* update() that supplied its value.
CycleInit ==
    /\ now = 0
    /\ \E m \in 1..MaxAge : cache = JsonDataCache(m, 1)
    /\ heap = [o \in ObjIds |-> EmptyDict]
    /\ held = None
    /\ DecoderUnused
    /\ ReaderUnused /\ threads = None
    /\ hist = EmptyDict
    /\ call = [op |-> "init"]

\* One iteration of a loop that decodes and then garbage-collects: update()
\* with what the decode produced (None when the line was no frame), then
\* garbage_collect().
CycleIteration ==
    \E a \in UpdateArgs :
        LET u == update(cache, heap, now, a)
            g == garbage_collect(u.c, u.h, now, RefLive(held))
            supplied == IF a = None THEN EmptyDict ELSE [k \in DOMAIN a[1] |-> now]
        IN  /\ cache' = g.c
            /\ heap' = Reclaim(g.h, CacheLive(g.c, held))
            /\ hist' = IF get_data_age(u.c, now) > u.c.max_age_seconds THEN EmptyDict
                       ELSE DictUpdate(hist, supplied)
            /\ call' = [op |-> "iteration", arg |-> a, pre |-> CachePre]
            /\ UNCHANGED <<now, held, decoderVars, readerVars, threads>>

CycleNext ==
    \/ Tick
    \/ CycleIteration
    \/ CacheGet

CycleSpec == CycleInit /\ [][CycleNext]_vars

\* C29: in a loop that decodes and then garbage-collects each iteration,
\* every key/value pair get() returns was supplied by an update() made less
\* than max_age before the read.
C29_NoRevivedValues ==
    call.op = "get" =>
        \A k \in DOMAIN call.ret :
            /\ k \in DOMAIN hist
            /\ now - hist[k] < cache.max_age_seconds

\* --------------------- the cache under concurrent callers (LockSpec)

\* One thread calls update() and garbage_collect(); the others call get(),
\* is_available() and get_item_count().
WRITER == "writer"
READERS == {"reader1", "reader2"}
CALLERS == {WRITER} \cup READERS

\* A thread outside every operation.
IdleCaller == [pc |-> "idle", op |-> "none", arg |-> None, local |-> None, ret |-> None]

\* What the writer hands update().
LOCK_UPDATE_ARGS ==
    {None, Some(EmptyDict)} \cup {Some(p) : p \in {q \in Partials : DictLen(q) = 1}}

\* hist is the timestamp and mapping the writer's last completed operation
\* left (those of __init__ before the first).
LockInit ==
    /\ now = 0
    /\ cache = JsonDataCache(MaxAge, 1)
    /\ heap = [o \in ObjIds |-> EmptyDict]
    /\ held = None
    /\ DecoderUnused
    /\ ReaderUnused
    /\ threads = [t \in CALLERS |-> IdleCaller]
    /\ hist = [last_updated |-> None, package |-> EmptyDict]
    /\ call = [op |-> "init"]

LockFrame == UNCHANGED <<now, held, decoderVars, readerVars>>

\* A thread enters an operation. update() returns at once, before the lock,
\* when it is handed None or an empty package.
LockCall(t) ==
    /\ threads[t].pc = "idle"
    /\ \/ /\ t = WRITER
          /\ \E a \in LOCK_UPDATE_ARGS :
                IF a = None \/ DictLen(a[1]) < 1
                THEN /\ UNCHANGED threads
                     /\ call' = [op |-> "update", thread |-> t, ret |-> None, local |-> None]
                ELSE /\ threads' = [threads EXCEPT ![t] =
                            [IdleCaller EXCEPT !.pc = "acquire", !.op = "update", !.arg = a]]
                     /\ call' = [op |-> "step"]
       \/ /\ t = WRITER
          /\ threads' = [threads EXCEPT ![t] =
                [IdleCaller EXCEPT !.pc = "acquire", !.op = "garbage_collect"]]
          /\ call' = [op |-> "step"]
       \/ /\ t \in READERS
          /\ \E o \in {"get", "is_available", "get_item_count"} :
                threads' = [threads EXCEPT ![t] =
                    [IdleCaller EXCEPT !.pc = "acquire", !.op = o]]
          /\ call' = [op |-> "step"]
    /\ UNCHANGED <<cache, heap, hist>>
    /\ LockFrame

\* __lock_object__.acquire()
LockAcquire(t) ==
    /\ threads[t].pc = "acquire"
    /\ ~acquire_blocks(cache.lock_object)
    /\ cache' = [cache EXCEPT !.lock_object = Some(t)]
    /\ threads' = [threads EXCEPT ![t].pc = "body1"]
    /\ call' = [op |-> "step"]
    /\ UNCHANGED <<heap, hist>>
    /\ LockFrame

\* The first statement under the lock.
LockBody1(t) ==
    /\ threads[t].pc = "body1"
    /\ LET th == threads[t]
       IN  CASE th.op = "update" ->
                  /\ cache' = [cache EXCEPT !.last_updated = Some(now)]
                  /\ threads' = [threads EXCEPT ![t].pc = "body2"]
                  /\ UNCHANGED heap
             [] th.op = "garbage_collect" ->
                  /\ threads' = [threads EXCEPT ![t].pc = "body2",
                                                ![t].local = Some(get_data_age(cache, now))]
                  /\ UNCHANGED <<cache, heap>>
             [] th.op = "is_available" ->
                  /\ threads' = [threads EXCEPT ![t].pc = "release",
                                                ![t].ret = Some(is_available(cache, now))]
                  /\ UNCHANGED <<cache, heap>>
             [] th.op = "get_item_count" ->
                  /\ threads' = [threads EXCEPT ![t].pc = "release",
                                                ![t].ret = Some(get_item_count(cache, heap))]
                  /\ UNCHANGED <<cache, heap>>
             [] th.op = "get" ->
                  /\ threads' =
                        IF cache.last_updated = None
                        THEN [threads EXCEPT ![t].pc = "release", ![t].ret = Some(EmptyDict)]
                        ELSE [threads EXCEPT ![t].pc = "body2",
                                ![t].local = Some([stamp |-> cache.last_updated,
                                                   fresh |-> get_is_fresh(cache, now)])]
                  /\ UNCHANGED <<cache, heap>>
    /\ call' = [op |-> "step"]
    /\ UNCHANGED hist
    /\ LockFrame

\* The second statement under the lock. The new {} garbage_collect binds
\* takes the object id of the mapping it drops.
LockBody2(t) ==
    /\ threads[t].pc = "body2"
    /\ LET th == threads[t]
       IN  CASE th.op = "update" ->
                  /\ heap' = [heap EXCEPT ![cache.json_package] = DictUpdate(@, th.arg[1])]
                  /\ UNCHANGED cache
                  /\ threads' = [threads EXCEPT ![t].pc = "release"]
             [] th.op = "garbage_collect" ->
                  /\ heap' = IF th.local[1] > cache.max_age_seconds
                             THEN [heap EXCEPT ![cache.json_package] = EmptyDict]
                             ELSE heap
                  /\ UNCHANGED cache
                  /\ threads' = [threads EXCEPT ![t].pc = "release"]
             [] th.op = "get" ->
                  /\ threads' = [threads EXCEPT ![t].pc = "release",
                        ![t].ret = Some(IF th.local[1].fresh THEN heap[cache.json_package]
                                        ELSE EmptyDict)]
                  /\ UNCHANGED <<cache, heap>>
    /\ call' = [op |-> "step"]
    /\ UNCHANGED hist
    /\ LockFrame

\* finally: __lock_object__.release(), and the operation returns.
LockRelease(t) ==
    /\ threads[t].pc = "release"
    /\ cache' = [cache EXCEPT !.lock_object = None]
    /\ threads' = [threads EXCEPT ![t] = IdleCaller]
    /\ hist' = IF t = WRITER
               THEN [last_updated |-> cache.last_updated,
                     package |-> heap[cache.json_package]]
               ELSE hist
    /\ call' = [op |-> threads[t].op, thread |-> t, ret |-> threads[t].ret,
                local |-> threads[t].local]
    /\ UNCHANGED heap
    /\ LockFrame

LockStep(t) ==
    \/ LockCall(t)
    \/ LockAcquire(t)
    \/ LockBody1(t)
    \/ LockBody2(t)
    \/ LockRelease(t)

LockNext ==
    \/ Tick
    \/ \E t \in CALLERS : LockStep(t)

LockSpec == LockInit /\ [][LockNext]_vars

\* The threads between acquire() and release().
InCriticalSection == {t \in CALLERS : threads[t].pc \in {"body1", "body2", "release"}}

\* C21: with one thread calling update()/garbage_collect() and others
\* calling get()/is_available()/get_item_count() in any interleaving, each
\* operation takes effect atomically: what a reader returns is the timestamp
\* and mapping a completed writer operation left, never a new timestamp with
\* the mapping from before the merge; at most one thread is under the lock,
\* and the lock is free when no operation is past its acquire().
C21_OperationsAtomic ==
    /\ Cardinality(InCriticalSection) <= 1
    /\ InCriticalSection = {} => cache.lock_object = None
    /\ \A t \in InCriticalSection : cache.lock_object = Some(t)
    /\ (call.op = "get" /\ call.ret # Some(EmptyDict)) =>
            /\ call.local # None
            /\ call.local[1].stamp = hist.last_updated
            /\ call.ret = Some(hist.package)
    /\ (call.op = "get" /\ call.ret = Some(EmptyDict)) =>
            \/ hist.last_updated = None
            \/ now - hist.last_updated[1] >= cache.max_age_seconds
    /\ call.op = "get_item_count" => call.ret = Some(DictLen(hist.package))
    /\ (call.op = "is_available" /\ call.ret = Some(TRUE)) => hist.last_updated # None

\* A get() returned stored content of two keys while the writer, inside
\* update(), waits for the lock.
C21_Witness ==
    /\ call.op = "get"
    /\ call.ret # Some(EmptyDict)
    /\ DictLen(call.ret[1]) = 2
    /\ threads[WRITER].op = "update"
    /\ threads[WRITER].pc = "acquire"
    /\ cache.lock_object = None

\* ------------------------------------------------------------ text fields

\* A str is a tuple of one-character strings. s[a:b] for 0 <= a <= b.
Slice(s, a, b) == SubSeq(s, a + 1, IF b < Len(s) THEN b ELSE Len(s))

Digits == <<"0", "1", "2", "3", "4", "5", "6", "7", "8", "9">>
HexDigits == Digits \o <<"A", "B", "C", "D", "E", "F">>

IsDigit(c) == \E i \in 1..Len(Digits) : Digits[i] = c
DigitVal(c) == (CHOOSE i \in 1..Len(Digits) : Digits[i] = c) - 1
IsHexDigit(c) == \E i \in 1..Len(HexDigits) : HexDigits[i] = c
HexDigitVal(c) == (CHOOSE i \in 1..Len(HexDigits) : HexDigits[i] = c) - 1

RECURSIVE DigitsVal(_)
DigitsVal(s) ==
    IF s = <<>> THEN 0
    ELSE DigitsVal(SubSeq(s, 1, Len(s) - 1)) * 10 + DigitVal(s[Len(s)])

RECURSIVE HexDigitsVal(_)
HexDigitsVal(s) ==
    IF s = <<>> THEN 0
    ELSE HexDigitsVal(SubSeq(s, 1, Len(s) - 1)) * 16 + HexDigitVal(s[Len(s)])

\* float(s) and int(s) on the text a frame carries: an optional sign and
\* decimal digits; any other text raises ValueError (ok = FALSE). The frames
\* considered hold no '.', exponent, '_' or blank in a numeric field. neg
\* keeps the sign of a negative zero.
ParseDecimal(s) ==
    LET signed == Len(s) > 0 /\ s[1] \in {"+", "-"}
        body   == IF signed THEN Tail(s) ELSE s
        ok     == Len(body) > 0 /\ \A i \in 1..Len(body) : IsDigit(body[i])
        neg    == signed /\ s[1] = "-"
    IN  [ok  |-> ok,
         neg |-> neg,
         val |-> IF ~ok THEN 0 ELSE IF neg THEN 0 - DigitsVal(body) ELSE DigitsVal(body)]

\* int(s, 16) on upper-case hexadecimal text.
ParseHex(s) ==
    LET ok == Len(s) > 0 /\ \A i \in 1..Len(s) : IsHexDigit(s[i])
    IN  [ok |-> ok, val |-> IF ok THEN HexDigitsVal(s) ELSE 0]

RECURSIVE NatStr(_)
NatStr(n) == IF n < 10 THEN <<Digits[n + 1]>> ELSE NatStr(n \div 10) \o <<Digits[(n % 10) + 1]>>

RECURSIVE StripZeros(_)
StripZeros(s) ==
    IF Len(s) > 1 /\ s[Len(s)] = "0" THEN StripZeros(SubSeq(s, 1, Len(s) - 1)) ELSE s

\* str(x / 64.0) for the float x = p: n/64 is a decimal fraction of at most
\* six places, which repr prints exactly, without trailing zeros.
StrOver64(p) ==
    LET mag   == IF p.val < 0 THEN 0 - p.val ELSE p.val
        micro == (mag % 64) * 15625
        six   == [i \in 1..6 |-> Digits[((micro \div (10 ^ (6 - i))) % 10) + 1]]
    IN  (IF p.neg THEN <<"-">> ELSE <<>>) \o NatStr(mag \div 64) \o <<".">> \o StripZeros(six)

\* --------------------------------------------------------- dynon_decoder

\* Max ages in eighths of a second: 0.5 s and 0.25 s.
MAX_EMS_DATA_AGE_SECONDS == 4
MAX_EFIS_DATA_AGE_SECOND == 2
\* 0.647, in thousandths.
AIRSPEED_CONVERSION_FACTOR == 647

\* A float product with the module's conversion factors, kept unevaluated:
\* raw / per * factors.
Scaled(raw, per, factors) == [raw |-> raw, per |-> per, factors |-> factors]

\* __get_data_length__; serial_data is None or <<str>>.
get_data_length(serial_data) ==
    IF serial_data = None THEN 0 ELSE Len(serial_data[1])

\* A variant that keeps the latest sample in place of the extreme.
update_gs_latest(current_vertical_gs, current_lateral_gs, minv, maxv, minl, maxl) ==
    [min_vertical_gs |-> current_vertical_gs,
     max_vertical_gs |-> current_vertical_gs,
     min_lateral_gs  |-> current_lateral_gs,
     max_lateral_gs  |-> current_lateral_gs]

\* update_gs: the four extremes after the call.
update_gs(current_vertical_gs, current_lateral_gs, minv, maxv, minl, maxl) ==
    [min_vertical_gs |-> IF current_vertical_gs < minv THEN current_vertical_gs ELSE minv,
     max_vertical_gs |-> IF current_vertical_gs > maxv THEN current_vertical_gs ELSE maxv,
     min_lateral_gs  |-> IF current_lateral_gs < minl THEN current_lateral_gs ELSE minl,
     max_lateral_gs  |-> IF current_lateral_gs > maxl THEN current_lateral_gs ELSE maxl]

\* The date part of utcnow(), "{0:04}-{1:02}-{2:02}": the bounded clock stays
\* within one UTC day.
UtcDate(t) == <<"2", "0", "2", "0", "-", "0", "6", "-", "1", "5">>

\* A variant that reads the pitch field without its sign character.
EfisFields_pitch_unsigned(sd) ==
    [time_fraction     |-> ParseDecimal(Slice(sd, 6, 8)),
     pitch             |-> ParseDecimal(Slice(sd, 9, 12)),
     roll              |-> ParseDecimal(Slice(sd, 12, 17)),
     yaw               |-> ParseDecimal(Slice(sd, 17, 20)),
     ias               |-> ParseDecimal(Slice(sd, 20, 24)),
     altitude          |-> ParseDecimal(Slice(sd, 24, 29)),
     turn_rate_or_vsi  |-> ParseDecimal(Slice(sd, 29, 33)),
     vertical_gs       |-> ParseDecimal(Slice(sd, 36, 39)),
     angle_of_attack   |-> ParseDecimal(Slice(sd, 39, 41)),
     status_bitmask    |-> ParseHex(Slice(sd, 41, 47))]

\* The numeric fields of an EFIS frame, parsed.
EfisFields(sd) ==
    [time_fraction     |-> ParseDecimal(Slice(sd, 6, 8)),
     pitch             |-> ParseDecimal(Slice(sd, 8, 12)),
     roll              |-> ParseDecimal(Slice(sd, 12, 17)),
     yaw               |-> ParseDecimal(Slice(sd, 17, 20)),
     ias               |-> ParseDecimal(Slice(sd, 20, 24)),
     altitude          |-> ParseDecimal(Slice(sd, 24, 29)),
     turn_rate_or_vsi  |-> ParseDecimal(Slice(sd, 29, 33)),
     vertical_gs       |-> ParseDecimal(Slice(sd, 36, 39)),
     angle_of_attack   |-> ParseDecimal(Slice(sd, 39, 41)),
     status_bitmask    |-> ParseHex(Slice(sd, 41, 47))]

\* is_pressure_alt_and_vsi = ((status_bitmask & 1) == 1)
is_pressure_alt_and_vsi_bit1(status_bitmask) == ((status_bitmask \div 2) % 2) = 1

is_pressure_alt_and_vsi(status_bitmask) == (status_bitmask % 2) = 1

\* decoded_efis for a frame whose fields f all parsed, with the session
\* extremes minv, maxv as they are. Scales: AHRSPitch, AHRSRoll, AHRSGLoad*,
\* AHRSTurnRate in tenths; AHRSAirspeed in ten-thousandths.
decoded_efis(sd, f, t, minv, maxv) ==
    LET last_time_received ==
            UtcDate(t) \o <<"T">> \o Slice(sd, 0, 2) \o <<":">> \o Slice(sd, 2, 4)
              \o <<":">> \o Slice(sd, 4, 6) \o <<".">>
              \o Slice(StrOver64(f.time_fraction), 2, 4) \o <<"Z">>
        common ==
            [GPSTime |-> last_time_received,
             GPSLastGPSTimeStratuxTime |-> last_time_received,
             BaroLastMeasurementTime |-> last_time_received,
             AHRSPitch |-> f.pitch.val,
             AHRSRoll |-> f.roll.val,
             AHRSGyroHeading |-> f.yaw.val,
             AHRSMagHeading |-> f.yaw.val,
             AHRSGLoad |-> f.vertical_gs.val,
             AHRSGLoadMin |-> minv,
             AHRSGLoadMax |-> maxv,
             AHRSLastAttitudeTime |-> last_time_received,
             AHRSAirspeed |-> f.ias.val * AIRSPEED_CONVERSION_FACTOR,
             AHRSAOA |-> f.angle_of_attack.val,
             AHRSStatus |-> 7]
        altitude == Scaled(f.altitude.val, 1, <<"METERS_TO_FEET", "METERS_TO_YARDS">>)
    IN  IF is_pressure_alt_and_vsi(f.status_bitmask.val)
        THEN DictUpdate(common,
                [BaroPressureAltitude |-> altitude,
                 BaroVerticalSpeed |-> Scaled(f.turn_rate_or_vsi.val, 10, <<"METERS_TO_YARDS">>)])
        ELSE DictUpdate(common,
                [Altitude |-> altitude,
                 AHRSTurnRate |-> f.turn_rate_or_vsi.val])

\* decode_efis up to its call of update: raised (a ValueError left the
\* method), and the dict handed to update (None when update is not reached).
decode_efis_at_least_53(serial_data, t, minv, maxv) ==
    IF get_data_length(serial_data) < 53
    THEN [raised |-> FALSE, merged |-> None]
    ELSE LET sd == serial_data[1]
             f  == EfisFields(sd)
         IN  IF \E k \in DOMAIN f : ~f[k].ok
             THEN [raised |-> TRUE, merged |-> None]
             ELSE [raised |-> FALSE, merged |-> Some(decoded_efis(sd, f, t, minv, maxv))]

decode_efis_zero_for_bad(serial_data, t, minv, maxv) ==
    IF get_data_length(serial_data) # 53
    THEN [raised |-> FALSE, merged |-> None]
    ELSE LET sd == serial_data[1]
         IN  [raised |-> FALSE, merged |-> Some(decoded_efis(sd, EfisFields(sd), t, minv, maxv))]

decode_efis(serial_data, t, minv, maxv) ==
    IF get_data_length(serial_data) # 53
    THEN [raised |-> FALSE, merged |-> None]
    ELSE LET sd == serial_data[1]
             f  == EfisFields(sd)
         IN  IF \E k \in DOMAIN f : ~f[k].ok
             THEN [raised |-> TRUE, merged |-> None]
             ELSE [raised |-> FALSE, merged |-> Some(decoded_efis(sd, f, t, minv, maxv))]

\* The numeric fields of an EMS frame, parsed.
EmsFields(sd) ==
    [manifold_pressure |-> ParseDecimal(Slice(sd, 8, 12)),
     oil_pressure      |-> ParseDecimal(Slice(sd, 15, 18)),
     fuel_pressure     |-> ParseDecimal(Slice(sd, 18, 21)),
     volts             |-> ParseDecimal(Slice(sd, 21, 24)),
     rpm               |-> ParseDecimal(Slice(sd, 27, 30)),
     fuel_level_1      |-> ParseDecimal(Slice(sd, 37, 40)),
     fuel_level_2      |-> ParseDecimal(Slice(sd, 40, 43))]

\* A variant whose package also carries the AHRSStatus key.
ems_package_with_status(sd, f) ==
    [EmsMap |-> f.manifold_pressure.val,
     EmsOilTemp |-> Slice(sd, 12, 15),
     EmsOilPressure |-> f.oil_pressure.val,
     EmsFuelPressure |-> f.fuel_pressure.val,
     EmsVolts |-> f.volts.val,
     EmsAmps |-> Slice(sd, 24, 27),
     EmsRpm |-> f.rpm.val * 10,
     EmsFuelLevel1 |-> f.fuel_level_1.val,
     EmsFuelLevel2 |-> f.fuel_level_2.val,
     EmsGp1 |-> Slice(sd, 43, 51),
     EmsGp2 |-> Slice(sd, 51, 59),
     AHRSStatus |-> 7]

\* ems_package. Scales: EmsMap in hundredths; EmsOilPressure,
\* EmsFuelPressure, EmsVolts, EmsFuelLevel1/2 in tenths; EmsRpm in units.
ems_package(sd, f) ==
    [EmsMap |-> f.manifold_pressure.val,
     EmsOilTemp |-> Slice(sd, 12, 15),
     EmsOilPressure |-> f.oil_pressure.val,
     EmsFuelPressure |-> f.fuel_pressure.val,
     EmsVolts |-> f.volts.val,
     EmsAmps |-> Slice(sd, 24, 27),
     EmsRpm |-> f.rpm.val * 10,
     EmsFuelLevel1 |-> f.fuel_level_1.val,
     EmsFuelLevel2 |-> f.fuel_level_2.val,
     EmsGp1 |-> Slice(sd, 43, 51),
     EmsGp2 |-> Slice(sd, 51, 59)]

\* decode_ems up to its call of update.
decode_ems(serial_data) ==
    IF get_data_length(serial_data) # 121
    THEN [raised |-> FALSE, merged |-> None]
    ELSE LET sd == serial_data[1]
             f  == EmsFields(sd)
         IN  IF \E k \in DOMAIN f : ~f[k].ok
             THEN [raised |-> TRUE, merged |-> None]
             ELSE [raised |-> FALSE, merged |-> Some(ems_package(sd, f))]

\* A variant that merges the stored mappings without asking their age.
get_ahrs_package_no_age_test(ems, efis, h, t0, t1, t2, t3, o) ==
    DictUpdate(DictUpdate([Service |-> "DynonToHud"], h[ems.json_package]),
               h[efis.json_package])

\* get_ahrs_package; the four cache calls read the clock at t0 <= t1 <= t2 <= t3.
get_ahrs_package_ems_last(ems, efis, h, t0, t1, t2, t3, o) ==
    LET cloned_package == [Service |-> "DynonToHud"]
        ems_got  == get(ems, h, t1, o)
        ems_pkg  == IF is_available(ems, t0) THEN ems_got.h[ems_got.ref] ELSE EmptyDict
        efis_got == get(efis, h, t3, o)
        efis_pkg == IF is_available(efis, t2) THEN efis_got.h[efis_got.ref] ELSE EmptyDict
    IN  DictUpdate(DictUpdate(cloned_package, efis_pkg), ems_pkg)

get_ahrs_package(ems, efis, h, t0, t1, t2, t3, o) ==
    LET cloned_package == [Service |-> "DynonToHud"]
        ems_got  == get(ems, h, t1, o)
        ems_pkg  == IF is_available(ems, t0) THEN ems_got.h[ems_got.ref] ELSE EmptyDict
        efis_got == get(efis, h, t3, o)
        efis_pkg == IF is_available(efis, t2) THEN efis_got.h[efis_got.ref] ELSE EmptyDict
    IN  DictUpdate(DictUpdate(cloned_package, ems_pkg), efis_pkg)

\* ------------------------------------------------------------ raw lines

EFIS_HEAD == <<"2", "1", "3", "0", "1", "1", "3", "3">>
EFIS_MID_A == <<"+", "0", "0", "0", "0", "1", "1", "0", "0", "0", "0", "0", "+", "0", "0", "2", "4", "-", "0", "0", "2", "-", "0", "0">>
EFIS_TAIL == <<"0", "1", "A", "C">> \o <<"\r", "\n">>
PITCH_A == <<"-", "0", "0", "8">>
GS_A == <<"+", "1", "0">>
GS_B == <<"+", "2", "5">>
GS_C == <<"-", "0", "5">>
STATUS_A == <<"F", "C", "3", "9", "F", "E">>
STATUS_B == <<"F", "C", "3", "9", "F", "F">>
EMS_HEAD == <<"2", "1", "1", "3", "1", "6", "0", "3", "3", "1", "9", "0", "0", "7", "9", "0", "2", "3", "0", "0", "1", "1", "1", "9", "-", "0", "2">>
EMS_TAIL == <<"0", "0", "0", "0", "0", "0", "0", "0", "6", "6", "0", "5", "9", "C", "H", "T", "0", "0", "0", "9", "2", "C", "H", "T", "0", "0", "0", "9", "0", "N", "/", "A", "X", "X", "X", "X", "X", "0", "9", "9", "9", "0", "0", "8", "4", "0", "0", "8", "4", "0", "5", "8", "7", "0", "5", "2", "7", "0", "6", "9", "0", "1", "1", "6", "1", "0", "9", "2", "0", "9", "0", "4", "7", "1", "2", "4", "0", "2", "2", "1", "3", "5", "1", "1", "1", "0", "3", "6", "A">> \o <<"\r", "\n">>
RPM_A == <<"0", "0", "0">>
RPM_B == <<"2", "4", "5">>

\* An EFIS frame of length 53 from its fields (hour, minute, second and
\* fraction "21301133", roll "+0000", yaw "110", airspeed "0000", altitude
\* "+0024", turn rate "-002", lateral G "-00", angle of attack "99", the
\* trailer "01AC" and CR LF are those of the docstring example).
EfisFrame(pitch, vertical_gs, status) ==
    EFIS_HEAD \o pitch \o EFIS_MID_A
      \o vertical_gs \o <<"9", "9">> \o status \o EFIS_TAIL

\* The EFIS line the module's __main__ block decodes.
EFIS_EXAMPLE == EfisFrame(PITCH_A, GS_A, STATUS_A)

EFIS_FRAMES ==
    {EFIS_EXAMPLE, EfisFrame(PITCH_A, GS_B, STATUS_B), EfisFrame(PITCH_A, GS_C, STATUS_A)}

\* An EMS frame of length 121 (the docstring example and CR LF), with the
\* RPM field given.
EmsFrame(rpm) == EMS_HEAD \o rpm \o EMS_TAIL

EMS_FRAMES == {EmsFrame(r) : r \in {RPM_A, RPM_B}}

\* Frames of the expected length with non-numeric text in a numeric field:
\* an EFIS frame whose pitch field is "-0X8", and an EMS frame whose RPM
\* field is "N/A".
PITCH_BAD == <<"-", "0", "X", "8">>
RPM_BAD == <<"N", "/", "A">>
BAD_EFIS_FRAMES == {EfisFrame(PITCH_BAD, GS_B, STATUS_A)}
BAD_EMS_FRAMES == {EmsFrame(RPM_BAD)}

\* Lines of no frame length: the empty line, the EFIS example without its
\* CR LF (51), and an EFIS frame followed by a second CR LF (55).
OTHER_LINES ==
    {<<>>,
     SubSeq(EfisFrame(PITCH_A, GS_A, STATUS_A), 1, 51),
     EfisFrame(PITCH_A, GS_B, STATUS_B) \o <<"\r", "\n">>}

\* What a decode call may be handed: None or a str.
Lines ==
    {None} \cup {Some(l) : l \in EFIS_FRAMES \cup EMS_FRAMES \cup OTHER_LINES
                                \cup BAD_EFIS_FRAMES \cup BAD_EMS_FRAMES}

\* The values the session extremes take, in tenths of a G: 1.0, and the
\* vertical-G fields of the frames above.
GS_VALUES == {10, 25, 0 - 5}

\* decode_efis and decode_ems are pure functions of their arguments: their
\* values over the arguments the specifications draw, computed once.
DECODE_EFIS ==
    [a \in Lines \X (0..MaxTime) \X GS_VALUES \X GS_VALUES |->
        decode_efis(a[1], a[2], a[3], a[4])] @@ <<>>

DECODE_EMS == [line \in Lines |-> decode_ems(line)] @@ <<>>

\* ----------------------------------------------- the decoder in use (Spec)

CacheUnused == cache = None /\ held = None

\* EfisAndEmsDecoder.__init__
Init ==
    /\ now = 0
    /\ ems_data = JsonDataCache(MAX_EMS_DATA_AGE_SECONDS, 1)
    /\ efis_data = JsonDataCache(MAX_EFIS_DATA_AGE_SECOND, 2)
    /\ heap = [o \in ObjIds |-> EmptyDict]
    /\ max_lateral_gs = 10 /\ min_lateral_gs = 10
    /\ max_vertical_gs = 10 /\ min_vertical_gs = 10
    /\ gs_samples = {}
    /\ CacheUnused
    /\ LinkUnused
    /\ call = [op |-> "init"]

DecoderLive(ems, efis) == {ems.json_package, efis.json_package}

\* decode_efis(line)
DecodeEfis ==
    \E line \in Lines :
        LET d == DECODE_EFIS[<<line, now, min_vertical_gs, max_vertical_gs>>]
            r == update(efis_data, heap, now, d.merged)
        IN  /\ efis_data' = r.c
            /\ heap' = r.h
            /\ gs_samples' = IF d.merged = None THEN gs_samples
                             ELSE gs_samples \cup {d.merged[1].AHRSGLoad}
            /\ call' = [op |-> "decode_efis", arg |-> line, raised |-> d.raised,
                        merged |-> d.merged]
            /\ UNCHANGED <<now, cacheVars, linkVars, ems_data, max_lateral_gs, min_lateral_gs,
                           max_vertical_gs, min_vertical_gs>>

\* decode_ems(line)
DecodeEms ==
    \E line \in Lines :
        LET d == DECODE_EMS[line]
            r == update(ems_data, heap, now, d.merged)
        IN  /\ ems_data' = r.c
            /\ heap' = r.h
            /\ call' = [op |-> "decode_ems", arg |-> line, raised |-> d.raised,
                        merged |-> d.merged]
            /\ UNCHANGED <<now, cacheVars, linkVars, efis_data, max_lateral_gs, min_lateral_gs,
                           max_vertical_gs, min_vertical_gs, gs_samples>>

\* EfisAndEmsDecoder.garbage_collect: the EFIS cache, then the EMS cache.
DecoderGarbageCollect ==
    LET r1 == garbage_collect(efis_data, heap, now, {ems_data.json_package})
        r2 == garbage_collect(ems_data, r1.h, now, {r1.c.json_package})
    IN  /\ efis_data' = r1.c
        /\ ems_data' = r2.c
        /\ heap' = Reclaim(r2.h, DecoderLive(r2.c, r1.c))
        /\ call' = [op |-> "garbage_collect"]
        /\ UNCHANGED <<now, cacheVars, linkVars, max_lateral_gs, min_lateral_gs,
                       max_vertical_gs, min_vertical_gs, gs_samples>>

\* get_ahrs_package(); the clock may advance between its four cache calls.
GetAhrsPackage ==
    \E d1 \in 0..1, d2 \in 0..1, d3 \in 0..1 :
        /\ now + d1 + d2 + d3 <= MaxTime
        /\ now' = now + d1 + d2 + d3
        /\ call' = [op |-> "get_ahrs_package", t0 |-> now,
                    ret |-> get_ahrs_package(ems_data, efis_data, heap,
                                now, now + d1, now + d1 + d2, now + d1 + d2 + d3,
                                NewObj(DecoderLive(ems_data, efis_data)))]
        /\ UNCHANGED <<heap, cacheVars, decoderVars, linkVars>>

Next ==
    \/ Tick
    \/ DecodeEfis
    \/ DecodeEms
    \/ DecoderGarbageCollect
    \/ GetAhrsPackage

Spec == Init /\ [][Next]_vars

\* ------------------------------------------------ claims on the decoder

\* C3: after any sequence of successful decode_efis calls, the AHRSGLoadMin
\* and AHRSGLoadMax the latest decode merges are the session extremes:
\* AHRSGLoadMin <= every vertical-G sample decoded so far (the current one
\* included) and AHRSGLoadMax >= every such sample.
C3_GLoadSessionExtremes ==
    (call.op = "decode_efis" /\ call.merged # None) =>
        \A g \in gs_samples :
            /\ call.merged[1].AHRSGLoadMin <= g
            /\ call.merged[1].AHRSGLoadMax >= g

\* C9: for every input that is None or whose length is not 53, decode_efis
\* leaves both caches (mapping and timestamp) unchanged; for every input that
\* is None or whose length is not 121, decode_ems leaves both unchanged.
C9_WrongLengthLeavesCaches ==
    [][(\/ call'.op = "decode_efis" /\ get_data_length(call'.arg) # 53
        \/ call'.op = "decode_ems" /\ get_data_length(call'.arg) # 121)
       => UNCHANGED <<efis_data, ems_data, heap>>]_vars

\* decode_efis was handed an EMS frame while both caches held content.
C9_Witness ==
    /\ call.op = "decode_efis"
    /\ get_data_length(call.arg) = 121
    /\ heap[efis_data.json_package] # EmptyDict
    /\ heap[ems_data.json_package] # EmptyDict

StatusBit0(sd) == sd[47] \in {"1", "3", "5", "7", "9", "B", "D", "F"}

\* C10: for every well-formed EFIS frame of length 53 the measurement set
\* decode_efis merges has exactly one of the two shapes: with bit 0 of the
\* status field set, BaroPressureAltitude and BaroVerticalSpeed and neither
\* Altitude nor AHRSTurnRate; with the bit clear, Altitude and AHRSTurnRate
\* and neither BaroPressureAltitude nor BaroVerticalSpeed.
C10_OneShapePerDecode ==
    (call.op = "decode_efis" /\ call.arg # None /\ call.arg[1] \in EFIS_FRAMES) =>
        /\ call.merged # None
        /\ LET keys == DOMAIN call.merged[1]
               baro == {"BaroPressureAltitude", "BaroVerticalSpeed"}
               plain == {"Altitude", "AHRSTurnRate"}
           IN  IF StatusBit0(call.arg[1])
               THEN baro \subseteq keys /\ keys \cap plain = {}
               ELSE plain \subseteq keys /\ keys \cap baro = {}

\* A frame with bit 0 set was decoded after one with the bit clear.
C10_Witness ==
    /\ call.op = "decode_efis"
    /\ call.merged # None
    /\ StatusBit0(call.arg[1])
    /\ "Altitude" \in DOMAIN heap[efis_data.json_package]

\* ------------------------- get_ahrs_package over cache contents (PackageSpec)

\* The decoder's two caches written through update() with arbitrary
\* non-empty packages, one key of which both packages may carry, so that
\* the merge order of get_ahrs_package shows.
EMS_PACKAGES ==
    UNION {[ks -> CacheVals] : ks \in (SUBSET {"EmsRpm", "AHRSStatus"}) \ {{}}}
EFIS_PACKAGES ==
    UNION {[ks -> CacheVals] : ks \in (SUBSET {"AHRSPitch", "AHRSStatus"}) \ {{}}}

\* self.__ems_data__.update(ems_package)
EmsUpdate ==
    \E p \in EMS_PACKAGES :
        LET r == update(ems_data, heap, now, Some(p))
        IN  /\ ems_data' = r.c
            /\ heap' = r.h
            /\ call' = [op |-> "ems_update", arg |-> p]
            /\ UNCHANGED <<now, cacheVars, linkVars, efis_data, max_lateral_gs,
                           min_lateral_gs, max_vertical_gs, min_vertical_gs, gs_samples>>

\* self.__efis_data__.update(decoded_efis)
EfisUpdate ==
    \E p \in EFIS_PACKAGES :
        LET r == update(efis_data, heap, now, Some(p))
        IN  /\ efis_data' = r.c
            /\ heap' = r.h
            /\ call' = [op |-> "efis_update", arg |-> p]
            /\ UNCHANGED <<now, cacheVars, linkVars, ems_data, max_lateral_gs,
                           min_lateral_gs, max_vertical_gs, min_vertical_gs, gs_samples>>

PackageNext ==
    \/ Tick
    \/ EmsUpdate
    \/ EfisUpdate
    \/ DecoderGarbageCollect
    \/ GetAhrsPackage

PackageSpec == Init /\ [][PackageNext]_vars

\* A cache that get()/is_available() find fresh at clock reading t.
FreshAt(c, t) == c.last_updated # None /\ t - c.last_updated[1] < c.max_age_seconds

\* C4: get_ahrs_package() always contains Service = 'DynonToHud'; when only
\* the EMS cache is available it contains Service plus exactly the stored EMS
\* keys and nothing of the EFIS cache; when both are available it contains
\* the union of both, the EFIS value being returned for a key both hold.
\* A cache is available to a call when it is fresh at each of the call's clock
\* readings (it is fresh at the last one), and unavailable when it is stale
\* at each (it is stale at the first one).
C4_AhrsPackageMerge ==
    call.op = "get_ahrs_package" =>
        LET r    == call.ret
            ems  == heap[ems_data.json_package]
            efis == heap[efis_data.json_package]
        IN  /\ "Service" \in DOMAIN r
            /\ r["Service"] = "DynonToHud"
            /\ (FreshAt(ems_data, now) /\ ~FreshAt(efis_data, call.t0)) =>
                    /\ DOMAIN r = {"Service"} \cup DOMAIN ems
                    /\ \A k \in DOMAIN ems : r[k] = ems[k]
            /\ (FreshAt(ems_data, now) /\ FreshAt(efis_data, now)) =>
                    /\ DOMAIN r = {"Service"} \cup DOMAIN ems \cup DOMAIN efis
                    /\ \A k \in DOMAIN efis : r[k] = efis[k]
                    /\ \A k \in (DOMAIN ems) \ (DOMAIN efis) : r[k] = ems[k]

\* Both caches were available to a call that took time, and hold different
\* values under a common key.
C4_Witness ==
    /\ call.op = "get_ahrs_package"
    /\ call.t0 < now
    /\ FreshAt(ems_data, now) /\ FreshAt(efis_data, now)
    /\ \E k \in DOMAIN heap[ems_data.json_package] \cap DOMAIN heap[efis_data.json_package] :
            heap[ems_data.json_package][k] # heap[efis_data.json_package][k]

\* ------------------------------------- further claims on the decoder (Spec)

\* The keys of decoded_efis (both shapes) and of ems_package.
EFIS_KEYS ==
    {"GPSTime", "GPSLastGPSTimeStratuxTime", "BaroLastMeasurementTime", "AHRSPitch",
     "AHRSRoll", "AHRSGyroHeading", "AHRSMagHeading", "AHRSGLoad", "AHRSGLoadMin",
     "AHRSGLoadMax", "AHRSLastAttitudeTime", "AHRSAirspeed", "AHRSAOA", "AHRSStatus",
     "BaroPressureAltitude", "BaroVerticalSpeed", "Altitude", "AHRSTurnRate"}

EMS_KEYS ==
    {"EmsMap", "EmsOilTemp", "EmsOilPressure", "EmsFuelPressure", "EmsVolts", "EmsAmps",
     "EmsRpm", "EmsFuelLevel1", "EmsFuelLevel2", "EmsGp1", "EmsGp2"}

\* C25 as stated: decoding the example EFIS line of __main__ (length 53 with
\* its CR LF) merges AHRSPitch = 0.0, AHRSRoll = 0.0, AHRSGyroHeading = 0 and
\* a GPSTime whose time of day is 21:30:11.
C25_ExampleDecodesToZeros ==
    (call.op = "decode_efis" /\ call.arg = Some(EFIS_EXAMPLE)) =>
        /\ call.merged # None
        /\ call.merged[1].AHRSPitch = 0
        /\ call.merged[1].AHRSRoll = 0
        /\ call.merged[1].AHRSGyroHeading = 0
        /\ Slice(call.merged[1].GPSTime, 11, 19) = <<"2", "1", ":", "3", "0", ":", "1", "1">>

\* C25, amended: decoding the example EFIS line of __main__ merges into the
\* EFIS cache AHRSPitch = -0.8 (the pitch field is "-008", tenths of a
\* degree), AHRSRoll = 0.0, AHRSGyroHeading = 110 (the heading field is
\* "110") and a GPSTime whose time of day is 21:30:11.
C25_ExampleDecode ==
    (call.op = "decode_efis" /\ call.arg = Some(EFIS_EXAMPLE)) =>
        LET stored == heap[efis_data.json_package]
        IN  /\ ~call.raised
            /\ call.merged # None
            /\ efis_data.last_updated = Some(now)
            /\ stored.AHRSPitch = 0 - 8
            /\ stored.AHRSRoll = 0
            /\ stored.AHRSGyroHeading = 110
            /\ Slice(stored.GPSTime, 11, 19) = <<"2", "1", ":", "3", "0", ":", "1", "1">>

\* The example line was decoded and its vertical G of 1.0 is in the cache.
C25_Witness ==
    /\ call.op = "decode_efis"
    /\ call.arg = Some(EFIS_EXAMPLE)
    /\ get_data_length(call.arg) = 53
    /\ heap[efis_data.json_package].AHRSGLoad = 10
    /\ heap[efis_data.json_package].AHRSPitch = 0 - 8

\* C26: a decode call modifies at most the cache of its own kind, and only
\* for a line of its frame length: decode_efis leaves the EMS cache alone and
\* changes the EFIS cache only for a line of length 53 and only with EFIS
\* keys; decode_ems leaves the EFIS cache alone and changes the EMS cache only
\* for a line of length 121 and only with EMS keys; the two key sets are
\* disjoint.
C26_OneCachePerLine ==
    [][/\ EFIS_KEYS \cap EMS_KEYS = {}
       /\ call'.op = "decode_efis" =>
            /\ ems_data' = ems_data
            /\ heap'[ems_data.json_package] = heap[ems_data.json_package]
            /\ (efis_data' # efis_data
                    \/ heap'[efis_data.json_package] # heap[efis_data.json_package]) =>
                  /\ get_data_length(call'.arg) = 53
                  /\ DOMAIN call'.merged[1] \subseteq EFIS_KEYS
                  /\ DOMAIN heap'[efis_data.json_package] \subseteq EFIS_KEYS
       /\ call'.op = "decode_ems" =>
            /\ efis_data' = efis_data
            /\ heap'[efis_data.json_package] = heap[efis_data.json_package]
            /\ (ems_data' # ems_data
                    \/ heap'[ems_data.json_package] # heap[ems_data.json_package]) =>
                  /\ get_data_length(call'.arg) = 121
                  /\ DOMAIN call'.merged[1] \subseteq EMS_KEYS
                  /\ DOMAIN heap'[ems_data.json_package] \subseteq EMS_KEYS]_vars

\* decode_ems merged an EMS frame while the EFIS cache held content.
C26_Witness ==
    /\ call.op = "decode_ems"
    /\ get_data_length(call.arg) = 121
    /\ call.merged # None
    /\ ems_data.last_updated = Some(now)
    /\ heap[efis_data.json_package] # EmptyDict

\* C27: when both caches are stale as get_ahrs_package() is called (each
\* never updated, or aged max_age or more), it returns exactly
\* {Service: 'DynonToHud'}, whether or not the stored mappings were cleared.
C27_BothStaleServiceOnly ==
    (/\ call.op = "get_ahrs_package"
     /\ ~FreshAt(ems_data, call.t0)
     /\ ~FreshAt(efis_data, call.t0)) =>
        call.ret = [Service |-> "DynonToHud"]

\* get_ahrs_package() was called with both caches updated once, stale and
\* not cleared.
C27_Witness ==
    /\ call.op = "get_ahrs_package"
    /\ ems_data.last_updated # None /\ efis_data.last_updated # None
    /\ ~FreshAt(ems_data, call.t0)
    /\ ~FreshAt(efis_data, call.t0)
    /\ heap[ems_data.json_package] # EmptyDict
    /\ heap[efis_data.json_package] # EmptyDict
    /\ call.ret = [Service |-> "DynonToHud"]

\* C30: the mapping get_ahrs_package() returns never holds both output
\* shapes: BaroPressureAltitude or BaroVerticalSpeed together with Altitude
\* or AHRSTurnRate.
C30_SnapshotOneShape ==
    call.op = "get_ahrs_package" =>
        ~(/\ {"BaroPressureAltitude", "BaroVerticalSpeed"} \cap DOMAIN call.ret # {}
          /\ {"Altitude", "AHRSTurnRate"} \cap DOMAIN call.ret # {})

\* --------------------------- the decoder with update_gs in use (GsSpec)

\* update_gs(current_vertical_gs, current_lateral_gs), called on the decoder
\* by a user of the class: no code of the repository calls it.
UpdateGs ==
    \E v \in GS_VALUES, l \in GS_VALUES :
        LET r == update_gs(v, l, min_vertical_gs, max_vertical_gs,
                           min_lateral_gs, max_lateral_gs)
        IN  /\ min_vertical_gs' = r.min_vertical_gs
            /\ max_vertical_gs' = r.max_vertical_gs
            /\ min_lateral_gs' = r.min_lateral_gs
            /\ max_lateral_gs' = r.max_lateral_gs
            /\ call' = [op |-> "update_gs", vertical |-> v, lateral |-> l]
            /\ UNCHANGED <<now, heap, cacheVars, linkVars, ems_data, efis_data, gs_samples>>

GsNext ==
    \/ UpdateGs
    \/ DecodeEfis
    \/ DecodeEms

GsSpec == Init /\ [][GsNext]_vars

\* C24: across any sequence of decode calls (and of update_gs calls) on one
\* decoder, min_vertical_gs and min_lateral_gs never increase,
\* max_vertical_gs and max_lateral_gs never decrease, and at all times
\* min <= 1.0 <= max on both axes.
C24_ExtremesMonotone ==
    /\ (min_vertical_gs <= 10 /\ 10 <= max_vertical_gs)
    /\ (min_lateral_gs <= 10 /\ 10 <= max_lateral_gs)
    /\ [][/\ min_vertical_gs' <= min_vertical_gs
          /\ min_lateral_gs' <= min_lateral_gs
          /\ max_vertical_gs' >= max_vertical_gs
          /\ max_lateral_gs' >= max_lateral_gs
          /\ min_vertical_gs' <= 10 /\ 10 <= max_vertical_gs'
          /\ min_lateral_gs' <= 10 /\ 10 <= max_lateral_gs']_vars

\* update_gs was called with samples inside the recorded extremes, which had
\* widened on both axes before, and decode calls were made.
C24_Witness ==
    /\ call.op = "update_gs"
    /\ call.vertical = 10 /\ call.lateral = 10
    /\ min_vertical_gs = 0 - 5 /\ max_vertical_gs = 25
    /\ min_lateral_gs = 0 - 5 /\ max_lateral_gs = 25
    /\ gs_samples # {}
    /\ heap[ems_data.json_package] # EmptyDict

\* ---------------------------------------------------- dynon_serial_reader

\* The objects the module binds to the name `timezone`, in import order
\* (lines 1 and 2): datetime.timezone, then time.timezone, an int.
TIMEZONE_IMPORTS == <<"datetime.timezone", "time.timezone">>

\* The binding in force: the last import.
timezone == TIMEZONE_IMPORTS[Len(TIMEZONE_IMPORTS)]

\* Whether obj.utc exists: datetime.timezone has it, an int has not.
HasUtc(obj) == obj = "datetime.timezone"

\* datetime.now(timezone.utc) at clock reading t: AttributeError without utc.
datetime_now_utc(t) ==
    IF HasUtc(timezone) THEN [raised |-> FALSE, val |-> t] ELSE [raised |-> TRUE, val |-> t]

\* The ASCII codes of the characters frames are made of.
ASCII ==
    <<<<10, "\n">>, <<13, "\r">>, <<43, "+">>, <<45, "-">>, <<47, "/">>,
      <<48, "0">>, <<49, "1">>, <<50, "2">>, <<51, "3">>, <<52, "4">>,
      <<53, "5">>, <<54, "6">>, <<55, "7">>, <<56, "8">>, <<57, "9">>,
      <<65, "A">>, <<66, "B">>, <<67, "C">>, <<68, "D">>, <<69, "E">>,
      <<70, "F">>, <<72, "H">>, <<78, "N">>, <<84, "T">>, <<88, "X">>>>

AsciiChr(b) == (CHOOSE i \in 1..Len(ASCII) : ASCII[i][1] = b)
AsciiOrd(c) == ASCII[CHOOSE i \in 1..Len(ASCII) : ASCII[i][2] = c][1]

\* str(serial_bytes, encoding='ascii'): UnicodeDecodeError on a byte >= 128.
StrAscii(serial_bytes) ==
    LET ok == \A i \in 1..Len(serial_bytes) : serial_bytes[i] < 128
    IN  [ok   |-> ok,
         text |-> IF ok THEN [i \in 1..Len(serial_bytes) |-> ASCII[AsciiChr(serial_bytes[i])][2]]
                  ELSE <<>>]

\* The bytes a device sends for a text.
Bytes(text) == [i \in 1..Len(text) |-> AsciiOrd(text[i])]

\* serial.Serial handles that can be open at once.
MaxHandles == 2
Handles == 1..MaxHandles

\* A variant that keeps the handle whose input flush failed.
open_serial_connection_keeps_unflushed(sr, oh, outcome, hn) ==
    IF sr # None
    THEN [serial_reader |-> sr, open_handles |-> oh, attempts |-> 0, raised |-> FALSE]
    ELSE IF outcome = "open_fails"
    THEN [serial_reader |-> None, open_handles |-> oh, attempts |-> 1, raised |-> FALSE]
    ELSE [serial_reader |-> Some(hn), open_handles |-> oh \cup {hn}, attempts |-> 1,
          raised |-> FALSE]

\* open_serial_connection. outcome: "ok", "open_fails" (serial.Serial raises)
\* or "flush_fails" (flushInput raises on the opened handle). hn: the handle
\* serial.Serial returns. attempts counts the calls of serial.Serial; raised
\* tells whether an exception leaves the method: the whole body is inside
\* try/except Exception.
open_serial_connection(sr, oh, outcome, hn) ==
    IF sr # None
    THEN [serial_reader |-> sr, open_handles |-> oh, attempts |-> 0, raised |-> FALSE]
    ELSE IF outcome = "open_fails"
    THEN [serial_reader |-> None, open_handles |-> oh, attempts |-> 1, raised |-> FALSE]
    ELSE IF outcome = "flush_fails"
    THEN [serial_reader |-> None, open_handles |-> oh \cup {hn}, attempts |-> 1,
          raised |-> FALSE]
    ELSE [serial_reader |-> Some(hn), open_handles |-> oh \cup {hn}, attempts |-> 1,
          raised |-> FALSE]

\* The except branch of read: close the handle, drop it; a close that raises
\* leaves read with that exception. The method then ends without a return
\* statement: its value is None. lines_read and opens count the calls of
\* readline and of open_serial_connection the call of read made.
ReadExcept(sr, lr, oh, close_outcome) ==
    IF close_outcome = "ok"
    THEN [ret |-> None, raised |-> FALSE, serial_reader |-> None, last_read |-> lr,
          open_handles |-> oh \ {sr[1]}, lines_read |-> 1, opens |-> 0]
    ELSE [ret |-> None, raised |-> TRUE, serial_reader |-> None, last_read |-> lr,
          open_handles |-> oh, lines_read |-> 1, opens |-> 0]

\* read() at clock reading t. readline: [raises |-> BOOLEAN, bytes |-> tuple];
\* ret is <<str>>, or None when the method returns nothing.
read(sr, lr, oh, t, readline, close_outcome, open_outcome, hn) ==
    IF sr # None
    THEN IF readline.raises THEN ReadExcept(sr, lr, oh, close_outcome)
         ELSE IF Len(readline.bytes) > 0
         THEN LET raw_read == StrAscii(readline.bytes)
                  stamp    == datetime_now_utc(t)
              IN  IF ~raw_read.ok \/ stamp.raised
                  THEN ReadExcept(sr, lr, oh, close_outcome)
                  ELSE [ret |-> Some(raw_read.text), raised |-> FALSE, serial_reader |-> sr,
                        last_read |-> Some(stamp.val), open_handles |-> oh,
                        lines_read |-> 1, opens |-> 0]
         ELSE [ret |-> Some(<<>>), raised |-> FALSE, serial_reader |-> sr,
               last_read |-> lr, open_handles |-> oh, lines_read |-> 1, opens |-> 0]
    ELSE LET o == open_serial_connection(sr, oh, open_outcome, hn)
         IN  [ret |-> Some(<<>>), raised |-> FALSE, serial_reader |-> o.serial_reader,
              last_read |-> lr, open_handles |-> o.open_handles,
              lines_read |-> 0, opens |-> 1]

\* Clock units in a second: MAX_EMS_DATA_AGE_SECONDS is half a second.
TicksPerSecond == 2 * MAX_EMS_DATA_AGE_SECONDS

\* timedelta(minutes=90), in seconds.
NEVER_READ_SECONDS == 90 * 60
\* The idle threshold of is_time_to_reconnect, in seconds.
RECONNECT_SECONDS == 30

\* get_time_since_last_read at clock reading t: a timedelta, in clock units.
get_time_since_last_read(lr, t) ==
    IF lr = None THEN [raised |-> FALSE, val |-> NEVER_READ_SECONDS * TicksPerSecond]
    ELSE LET utc_now == datetime_now_utc(t)
         IN  IF utc_now.raised THEN [raised |-> TRUE, val |-> 0]
             ELSE [raised |-> FALSE, val |-> utc_now.val - lr[1]]

\* The attribute td.total_seconds: the bound method, not its value.
total_seconds_attr(td) == [kind |-> "method", self |-> td]

\* a > b for an int b: TypeError when a is a method.
PyGreater(a, b) ==
    IF a.kind = "method" THEN [raised |-> TRUE, val |-> FALSE]
    ELSE [raised |-> FALSE, val |-> a.val > b]

\* is_time_to_reconnect at clock reading t.
is_time_to_reconnect(lr, t) ==
    LET time_since_last_read == get_time_since_last_read(lr, t)
    IN  IF time_since_last_read.raised THEN [raised |-> TRUE, val |-> FALSE]
        ELSE PyGreater(total_seconds_attr(time_since_last_read.val),
                       RECONNECT_SECONDS * TicksPerSecond)

\* start_reconnect
start_reconnect_keep_handle(sr, lr) == [serial_reader |-> sr, last_read |-> None]

start_reconnect(sr, lr) == [serial_reader |-> None, last_read |-> None]

\* ------------------------------------------- the reader in use (ReaderSpec)

\* What readline may deliver: a frame, a bare CR LF, a line with a byte that
\* is not ASCII, nothing within the timeout (b''), or an I/O error.
SERIAL_LINES ==
    {Bytes(EfisFrame(PITCH_A, GS_B, STATUS_A)), Bytes(EmsFrame(RPM_B)),
     Bytes(EfisFrame(PITCH_BAD, GS_B, STATUS_A)), <<13, 10>>, <<255, 10>>}

\* The byte lines of frames with a malformed field.
BAD_SERIAL_LINES == {Bytes(l) : l \in BAD_EFIS_FRAMES}

\* Whether readline delivered a non-empty ASCII line without an I/O error.
Delivered(rl) ==
    /\ ~rl.raises
    /\ Len(rl.bytes) > 0
    /\ \A i \in 1..Len(rl.bytes) : rl.bytes[i] < 128

READLINE_OUTCOMES ==
    {[raises |-> FALSE, bytes |-> b] : b \in SERIAL_LINES \cup {<<>>}}
      \cup {[raises |-> TRUE, bytes |-> <<>>]}

OPEN_OUTCOMES == {"ok", "open_fails", "flush_fails"}
CLOSE_OUTCOMES == {"ok", "raises"}

\* The handle serial.Serial returns: one that is not open.
NewHandle(oh) == CHOOSE h \in Handles : h \notin oh /\ \A g \in Handles : g \notin oh => h <= g

\* DynonSerialReader.__init__: no handle, no last read, then
\* open_serial_connection().
ReaderInit ==
    /\ now = 0
    /\ last_read = None
    /\ \E outcome \in OPEN_OUTCOMES :
        LET o == open_serial_connection(None, {}, outcome, NewHandle({}))
        IN  /\ serial_reader = o.serial_reader
            /\ open_handles = o.open_handles
            /\ call = [op |-> "init", open_outcome |-> outcome]
    /\ threads = None
    /\ hist = [after_reconnect |-> FALSE, delivered_at |-> None]
    /\ heap = [o \in ObjIds |-> EmptyDict]
    /\ CacheUnused
    /\ DecoderUnused

\* read(); a new handle is at hand whenever read may open one.
Read ==
    /\ serial_reader = None => open_handles # Handles
    /\ \E rl \in READLINE_OUTCOMES, cl \in CLOSE_OUTCOMES, op \in OPEN_OUTCOMES :
        LET hn == IF open_handles = Handles THEN 0 ELSE NewHandle(open_handles)
            r  == read(serial_reader, last_read, open_handles, now, rl, cl, op, hn)
        IN  /\ serial_reader' = r.serial_reader
            /\ last_read' = r.last_read
            /\ open_handles' = r.open_handles
            /\ call' = [op |-> "read", had_handle |-> serial_reader,
                        readline |-> IF serial_reader # None THEN rl ELSE None,
                        ret |-> r.ret, raised |-> r.raised,
                        lines_read |-> r.lines_read, opens |-> r.opens,
                        after_reconnect |-> hist.after_reconnect]
            /\ hist' = [after_reconnect |-> FALSE,
                        delivered_at |-> IF serial_reader # None /\ Delivered(rl)
                                         THEN Some(now) ELSE hist.delivered_at]
    /\ UNCHANGED <<now, heap, cacheVars, decoderVars, threads>>

\* open_serial_connection()
OpenSerialConnection ==
    /\ serial_reader = None => open_handles # Handles
    /\ \E op \in OPEN_OUTCOMES :
        LET hn == IF open_handles = Handles THEN 0 ELSE NewHandle(open_handles)
            o  == open_serial_connection(serial_reader, open_handles, op, hn)
        IN  /\ serial_reader' = o.serial_reader
            /\ open_handles' = o.open_handles
            /\ call' = [op |-> "open_serial_connection", had_handle |-> serial_reader,
                        open_outcome |-> IF serial_reader = None THEN op ELSE "none",
                        attempts |-> o.attempts, raised |-> o.raised]
    /\ hist' = [hist EXCEPT !.after_reconnect = FALSE]
    /\ UNCHANGED <<now, heap, cacheVars, decoderVars, last_read, threads>>

\* start_reconnect()
StartReconnect ==
    LET r == start_reconnect(serial_reader, last_read)
    IN  /\ serial_reader' = r.serial_reader
        /\ last_read' = r.last_read
        /\ call' = [op |-> "start_reconnect", had_handle |-> serial_reader,
                    had_last_read |-> last_read]
        /\ hist' = [after_reconnect |-> TRUE, delivered_at |-> None]
        /\ UNCHANGED <<now, heap, cacheVars, decoderVars, open_handles, threads>>

\* get_time_since_last_read()
GetTimeSinceLastRead ==
    LET r == get_time_since_last_read(last_read, now)
    IN  /\ call' = [op |-> "get_time_since_last_read", last_read |-> last_read,
                    raised |-> r.raised, ret |-> r.val]
        /\ UNCHANGED <<now, heap, cacheVars, decoderVars, linkVars>>

\* is_time_to_reconnect()
IsTimeToReconnect ==
    LET r == is_time_to_reconnect(last_read, now)
    IN  /\ call' = [op |-> "is_time_to_reconnect", last_read |-> last_read,
                    raised |-> r.raised, ret |-> r.val]
        /\ UNCHANGED <<now, heap, cacheVars, decoderVars, linkVars>>

\* A handle the reader dropped without close() (start_reconnect, a failed
\* flushInput) stays open until the runtime finalizes the object, if it ever
\* does: the code does not decide when.
Finalize ==
    /\ \E h \in open_handles \ RefLive(serial_reader) :
        /\ open_handles' = open_handles \ {h}
        /\ call' = [op |-> "finalize", handle |-> h]
    /\ UNCHANGED <<now, heap, cacheVars, decoderVars, serial_reader, last_read, threads, hist>>

ReaderNext ==
    \/ Tick
    \/ Read
    \/ OpenSerialConnection
    \/ StartReconnect
    \/ GetTimeSinceLastRead
    \/ IsTimeToReconnect
    \/ Finalize

ReaderSpec == ReaderInit /\ [][ReaderNext]_vars

\* C2: when a handle is held and the line read delivers a non-empty byte line
\* without an I/O error, read() returns exactly that line as text, records
\* the last-successful-read timestamp, and the handle is still held.
C2_ReadReturnsLine ==
    (/\ call.op = "read"
     /\ call.had_handle # None
     /\ ~call.readline.raises
     /\ Len(call.readline.bytes) > 0
     /\ \A i \in 1..Len(call.readline.bytes) : call.readline.bytes[i] < 128) =>
        /\ ~call.raised
        /\ call.ret # None
        /\ Len(call.ret[1]) = Len(call.readline.bytes)
        /\ \A i \in 1..Len(call.ret[1]) : AsciiOrd(call.ret[1][i]) = call.readline.bytes[i]
        /\ last_read = Some(now)
        /\ serial_reader = call.had_handle

\* -------------------------------------- dynon_to_hud: the per-link loops

SERIAL_PORT_0 == "/dev/ttyUSB0"
SERIAL_PORT_1 == "/dev/ttyUSB1"

\* The ports serial_port_0_thread and serial_port_1_thread are created for.
PORTS == {SERIAL_PORT_0, SERIAL_PORT_1}

\* timeout=10 of serial.Serial: the seconds a readline() that returns b''
\* has blocked.
SERIAL_TIMEOUT == 10

\* The consecutive readline() timeouts after which a link has been idle for
\* longer than the threshold of is_time_to_reconnect.
IDLE_READS == (RECONNECT_SECONDS \div SERIAL_TIMEOUT) + 1

\* A thread running read_and_decode_loop(port). pc is the statement it is
\* at: "open" (line 54), "read" (57), "decode_efis" (58), "decode_ems" (59),
\* or "dead" when an exception has left the function. serial_reader and
\* last_read are the fields of its serial_connection, raw_feed its local.
\* History: delivered is what readline() gave the current iteration, steps
\* the calls of the current (or, between iterations, the last) iteration,
\* bad_seen whether the link has delivered a frame with a malformed field,
\* idle_reads the readline() timeouts in a row.
LoopThread ==
    [pc |-> "open", serial_reader |-> None, last_read |-> None, raw_feed |-> None,
     delivered |-> None, steps |-> <<>>, bad_seen |-> FALSE, idle_reads |-> 0]

\* The module-level decoder, and both threads started.
LinkInit ==
    /\ now = 0
    /\ ems_data = JsonDataCache(MAX_EMS_DATA_AGE_SECONDS, 1)
    /\ efis_data = JsonDataCache(MAX_EFIS_DATA_AGE_SECOND, 2)
    /\ heap = [o \in ObjIds |-> EmptyDict]
    /\ max_lateral_gs = 10 /\ min_lateral_gs = 10
    /\ max_vertical_gs = 10 /\ min_vertical_gs = 10
    /\ gs_samples = {}
    /\ CacheUnused
    /\ ReaderUnused
    /\ threads = [p \in PORTS |-> LoopThread]
    /\ hist = [efis_writers |-> {}, ems_writers |-> {}]
    /\ call = [op |-> "init"]

\* What an exception does to read_and_decode_loop: `finally` sleeps and the
\* exception goes on, out of `while True` and of the thread's target.
loop_after_raise(raised, next_pc) == IF raised THEN "dead" ELSE next_pc

\* A variant of the loop test that asks only whether a reader was made.
open_loop_continues_without_reader(serial_connection) == serial_connection = None

\* The loop test of open_dynon_serials_connection (and of its finally
\* clause): serial_connection is None or <<a reader>>.
open_loop_continues(serial_connection) ==
    serial_connection = None \/ serial_connection[1].serial_reader = None

\* Line 54, one round of open_dynon_serials_connection's loop: a new
\* DynonSerialReader (whose __init__ opens), and a sleep and another round
\* while it holds no handle.
LoopOpen(p) ==
    /\ threads[p].pc = "open"
    /\ open_handles # Handles
    /\ \E outcome \in OPEN_OUTCOMES :
        LET o == open_serial_connection(None, open_handles, outcome, NewHandle(open_handles))
            serial_connection == Some([serial_reader |-> o.serial_reader, last_read |-> None])
        IN  /\ threads' = [threads EXCEPT ![p].serial_reader = o.serial_reader,
                                          ![p].last_read = None,
                                          ![p].idle_reads = 0,
                                          ![p].pc = IF open_loop_continues(serial_connection)
                                                    THEN "open" ELSE "read"]
            /\ open_handles' = o.open_handles
            /\ call' = [op |-> "loop_open", port |-> p, open_outcome |-> outcome]
    /\ UNCHANGED <<now, heap, cacheVars, decoderVars, serial_reader, last_read, hist>>

\* Line 57: raw_feed = serial_connection.read()
LoopRead(p) ==
    /\ threads[p].pc = "read"
    /\ \E rl \in READLINE_OUTCOMES, cl \in CLOSE_OUTCOMES :
        LET th == threads[p]
            r  == read(th.serial_reader, th.last_read, open_handles, now, rl, cl, "ok", 0)
        IN  /\ threads' = [threads EXCEPT
                    ![p].serial_reader = r.serial_reader,
                    ![p].last_read = r.last_read,
                    ![p].raw_feed = r.ret,
                    ![p].delivered = Some(rl),
                    ![p].steps = <<"read">>,
                    ![p].bad_seen = @ \/ (~rl.raises /\ rl.bytes \in BAD_SERIAL_LINES),
                    ![p].idle_reads = IF ~rl.raises /\ rl.bytes = <<>>
                                      THEN (IF @ < IDLE_READS THEN @ + 1 ELSE @) ELSE 0,
                    ![p].pc = loop_after_raise(r.raised, "decode_efis")]
            /\ open_handles' = r.open_handles
            /\ call' = [op |-> "loop_read", port |-> p, readline |-> rl,
                        close_outcome |-> cl, ret |-> r.ret, raised |-> r.raised]
    /\ UNCHANGED <<now, heap, cacheVars, decoderVars, serial_reader, last_read, hist>>

\* Line 58: decoder.decode_efis(raw_feed)
LoopDecodeEfis(p) ==
    /\ threads[p].pc = "decode_efis"
    /\ LET d == decode_efis(threads[p].raw_feed, now, min_vertical_gs, max_vertical_gs)
           r == update(efis_data, heap, now, d.merged)
       IN  /\ efis_data' = r.c
           /\ heap' = r.h
           /\ gs_samples' = IF d.merged = None THEN gs_samples
                            ELSE gs_samples \cup {d.merged[1].AHRSGLoad}
           /\ hist' = IF d.merged = None THEN hist
                      ELSE [hist EXCEPT !.efis_writers = @ \cup {p}]
           /\ threads' = [threads EXCEPT ![p].steps = Append(@, "decode_efis"),
                                         ![p].pc = loop_after_raise(d.raised, "decode_ems")]
           /\ call' = [op |-> "loop_decode_efis", port |-> p, raised |-> d.raised,
                       merged |-> d.merged]
    /\ UNCHANGED <<now, cacheVars, readerVars, ems_data, max_lateral_gs, min_lateral_gs,
                   max_vertical_gs, min_vertical_gs>>

\* Line 59: decoder.decode_ems(raw_feed); then the test of line 56, and
\* line 54 again when the handle is gone. raw_feed is not read again before
\* line 57 assigns it.
LoopDecodeEms(p) ==
    /\ threads[p].pc = "decode_ems"
    /\ LET d == decode_ems(threads[p].raw_feed)
           r == update(ems_data, heap, now, d.merged)
       IN  /\ ems_data' = r.c
           /\ heap' = r.h
           /\ hist' = IF d.merged = None THEN hist
                      ELSE [hist EXCEPT !.ems_writers = @ \cup {p}]
           /\ threads' = [threads EXCEPT
                    ![p].steps = Append(@, "decode_ems"),
                    ![p].raw_feed = None,
                    ![p].delivered = None,
                    ![p].pc = loop_after_raise(d.raised,
                                IF threads[p].serial_reader # None THEN "read" ELSE "open")]
           /\ call' = [op |-> "loop_decode_ems", port |-> p, raised |-> d.raised,
                       merged |-> d.merged]
    /\ UNCHANGED <<now, cacheVars, readerVars, efis_data, max_lateral_gs, min_lateral_gs,
                   max_vertical_gs, min_vertical_gs, gs_samples>>

LoopStep(p) == LoopOpen(p) \/ LoopRead(p) \/ LoopDecodeEfis(p) \/ LoopDecodeEms(p)

\* The loops read the clock only inside read() and the decoders; the links
\* are followed at one clock reading.
LinkNext ==
    \/ \E p \in PORTS : LoopOpen(p)
    \/ \E p \in PORTS : LoopRead(p)
    \/ \E p \in PORTS : LoopDecodeEfis(p)
    \/ \E p \in PORTS : LoopDecodeEms(p)

LinkSpec == LinkInit /\ [][LinkNext]_vars

\* Each started thread keeps being scheduled.
LinkFairSpec == LinkSpec /\ \A p \in PORTS : WF_vars(LoopStep(p))

\* C14: read() always returns a string. It returns the empty string when no
\* handle is held; when the line read is empty, the handle being kept; and
\* when the line read raises an I/O exception, the handle then being closed
\* and absent.
C14_ReadReturnsString ==
    call.op = "read" =>
        /\ ~call.raised
        /\ call.ret # None
        /\ call.had_handle = None => call.ret = Some(<<>>)
        /\ (call.had_handle # None /\ ~call.readline.raises /\ Len(call.readline.bytes) = 0) =>
                /\ call.ret = Some(<<>>)
                /\ serial_reader = call.had_handle
        /\ (call.had_handle # None /\ call.readline.raises) =>
                /\ call.ret = Some(<<>>)
                /\ serial_reader = None
                /\ call.had_handle[1] \notin open_handles

\* C15: on a reader with no last-read timestamp, get_time_since_last_read()
\* reports 90 minutes and is_time_to_reconnect() returns true.
C15_NeverReadReconnects ==
    /\ (call.op = "get_time_since_last_read" /\ call.last_read = None) =>
            ~call.raised /\ call.ret = NEVER_READ_SECONDS * TicksPerSecond
    /\ (call.op = "is_time_to_reconnect" /\ call.last_read = None) =>
            ~call.raised /\ call.ret = TRUE

\* C16: when the device last delivered a non-empty line to read() at time t
\* and start_reconnect() has not been called since, is_time_to_reconnect()
\* returns false at every time up to t + 30 s and true at every later time.
C16_ReconnectAfterThreshold ==
    (call.op = "is_time_to_reconnect" /\ hist.delivered_at # None) =>
        /\ ~call.raised
        /\ call.ret = (now - hist.delivered_at[1] > RECONNECT_SECONDS * TicksPerSecond)

\* C17: start_reconnect() leaves the reader with no handle and no last-read
\* timestamp, whatever it held; the read() that follows it reads no line,
\* calls open_serial_connection() exactly once and returns the empty string.
C17_StartReconnectThenRead ==
    /\ call.op = "start_reconnect" => serial_reader = None /\ last_read = None
    /\ (call.op = "read" /\ call.after_reconnect) =>
            /\ call.lines_read = 0
            /\ call.opens = 1
            /\ ~call.raised
            /\ call.ret = Some(<<>>)

\* The read() that followed a start_reconnect() opened a second handle: the
\* reader held one when start_reconnect() was called.
C17_Witness ==
    /\ call.op = "read"
    /\ call.after_reconnect
    /\ serial_reader # None
    /\ Cardinality(open_handles) = 2

\* C22: open_serial_connection() never raises to its caller; with a handle
\* held it makes no open attempt and keeps the handle; with none held it makes
\* one attempt, and when the open or the input flush fails the reader ends with
\* no handle.
C22_OpenNeverRaises ==
    call.op = "open_serial_connection" =>
        /\ ~call.raised
        /\ call.had_handle # None =>
                /\ call.attempts = 0
                /\ serial_reader = call.had_handle
        /\ call.had_handle = None =>
                /\ call.attempts = 1
                /\ call.open_outcome # "ok" => serial_reader = None
                /\ call.open_outcome = "ok" => serial_reader # None

\* An open attempt whose input flush failed left the reader without a handle.
C22_Witness ==
    /\ call.op = "open_serial_connection"
    /\ call.had_handle = None
    /\ call.open_outcome = "flush_fails"
    /\ call.attempts = 1
    /\ serial_reader = None

\* C32: a handle that was opened is closed before the reader forgets it:
\* after any sequence of open_serial_connection(), read() and
\* start_reconnect() calls every open handle is the one the reader
\* references, so at most one handle is open.
C32_NoForgottenOpenHandle ==
    /\ open_handles \subseteq RefLive(serial_reader)
    /\ Cardinality(open_handles) <= 1

\* ------------------------------------------- claims on the per-link loops

\* C31: open_dynon_serials_connection(port) returns only a reader whose
\* handle is present (and open); a round whose open or flush fails is followed
\* by another round with a new reader and the function does not return; the
\* round in which the device opens is the one in which the function returns.
C31_OpenReturnsOnlyWithHandle ==
    [][\A p \in PORTS :
        /\ (threads[p].pc = "open" /\ threads'[p].pc # "open") =>
                /\ threads'[p].pc = "read"
                /\ threads'[p].serial_reader # None
                /\ threads'[p].serial_reader[1] \in open_handles'
                /\ call'.op = "loop_open" /\ call'.port = p
                /\ call'.open_outcome = "ok"
        /\ (call'.op = "loop_open" /\ call'.port = p /\ call'.open_outcome # "ok") =>
                /\ threads'[p].pc = "open"
                /\ threads'[p].serial_reader = None
                /\ threads'[p].last_read = None
        /\ (call'.op = "loop_open" /\ call'.port = p /\ call'.open_outcome = "ok") =>
                threads'[p].pc = "read"]_vars

\* The function returned a reader with a handle after a round had failed at
\* the flush (the handle of that round is still open and no reader has it).
C31_Witness ==
    /\ call.op = "loop_open"
    /\ call.open_outcome = "ok"
    /\ threads[call.port].pc = "read"
    /\ threads[call.port].serial_reader # None
    /\ \E h \in open_handles : \A p \in PORTS : threads[p].serial_reader # Some(h)
    /\ \A p \in PORTS \ {call.port} : threads[p].pc = "open" /\ threads[p].steps = <<>>

\* Whether the current iteration of the thread of port p was delivered the
\* byte line b.
DeliveredLine(p, b) == threads[p].delivered = Some([raises |-> FALSE, bytes |-> b])

\* C12: a frame with a malformed numeric field does not stop the loop of
\* its link: the decode call that follows its delivery does not end the
\* thread, and the well-formed frames the link delivers afterwards are read
\* and decoded (merged into the cache).
C12_LoopSurvivesParseFailure ==
    call.op = "loop_decode_efis" =>
        LET p == call.port
        IN  /\ (\E b \in BAD_SERIAL_LINES : DeliveredLine(p, b)) => threads[p].pc # "dead"
            /\ (threads[p].bad_seen
                  /\ DeliveredLine(p, Bytes(EfisFrame(PITCH_A, GS_B, STATUS_A)))) =>
                    /\ call.merged # None
                    /\ heap[efis_data.json_package] # EmptyDict

\* C13: no exception raised while opening, reading or closing the serial
\* device leaves read_and_decode_loop: no thread ends; after a failed read
\* the handle is dropped; after a failed open the thread is back at the open.
C13_IoFailureStaysInLoop ==
    /\ \A p \in PORTS : threads[p].pc # "dead"
    /\ (call.op = "loop_read" /\ call.readline.raises) =>
            threads[call.port].serial_reader = None
    /\ (call.op = "loop_open" /\ call.open_outcome # "ok") =>
            /\ threads[call.port].serial_reader = None
            /\ threads[call.port].pc = "open"

\* C18: every completed iteration of the loop is exactly: read the line,
\* decode it as EFIS, decode it as EMS, garbage-collect both caches.
C18_IterationEndsWithGarbageCollect ==
    \A p \in PORTS :
        (threads[p].pc \in {"open", "read"} /\ threads[p].steps # <<>>) =>
            threads[p].steps = <<"read", "decode_efis", "decode_ems", "garbage_collect">>

\* C19: a link that is open and has delivered no non-empty line for longer
\* than the idle threshold is eventually reconnected: its thread gets to a
\* new open, unless the link stops being idle first.
C19_IdleLinkReconnects ==
    \A p \in PORTS :
        (threads[p].idle_reads = IDLE_READS)
            ~> (threads[p].pc = "open" \/ threads[p].idle_reads < IDLE_READS)

====
